---- MODULE Spec2Model ----
(***************************************************************************)
(* State-machine model of the FishBehaviorPrediction React component       *)
(* (src/src/components/FishBehaviorPrediction.tsx), of its earlier         *)
(* revision (src/unnamed/part_000) and of the history service              *)
(* (src/src/services/predictionService.ts).                                *)
(*                                                                         *)
(* One behaviour is the life of one component instance of one revision.    *)
(* Time is in milliseconds.  A state update and the re-render it causes,   *)
(* including the clean-up and re-run of an effect whose dependencies       *)
(* changed, are one step: the window between a React commit and its        *)
(* passive effects is far below the 1000 ms timer period.  A timer that is *)
(* due fires before time advances.  Network completions and user actions   *)
(* happen at any instant.                                                  *)
(***************************************************************************)
EXTENDS Integers, Sequences, FiniteSets, TLC

\* ------------------------------------------------------------------ bounds
MaxTime == 3000
Granularity == 1000
RefreshInterval == 2000
MaxInFlight == 2
MaxRecords == 1
MaxHistoryPending == 1

\* ------------------------------------------------------ program constants
CountdownPeriod == 1000
SampleDelay == 800
HistoryLimit == 20

\* JS null / undefined in a string-typed slot
Null == "<null>"

Min(a, b) == IF a <= b THEN a ELSE b
Max(a, b) == IF a >= b THEN a ELSE b

\* ------------------------------------------------------------------ inputs
\* props of one component instance; initialPattern "" and initialConfidence
\* <<>> stand for an omitted (undefined) prop
PropsSet ==
  { [imageUrl |-> "a.jpg", initialPattern |-> "",           initialConfidence |-> <<>>],
    [imageUrl |-> "",      initialPattern |-> "",           initialConfidence |-> <<>>],
    [imageUrl |-> "a.jpg", initialPattern |-> "Clustering", initialConfidence |-> <<87>>],
    [imageUrl |-> "a.jpg", initialPattern |-> "Clustering", initialConfidence |-> <<>>] }

\* what the classifier may answer: a class index and a probability in
\* thousandths (875 is 0.875)
ClassIndices == {2, 7}
Probabilities == {875}
FailureKinds == {"status", "network", "parse"}

VARIABLES
  revision,              \* "current" (FishBehaviorPrediction.tsx) or "part_000"
  props,                 \* the instance's props
  phase,                 \* "rendered" (constructed), "mounted", "unmounted"
  now,                   \* the clock, ms
  pattern, isLoading, error, saveStatus,
  confidence,            \* part_000's confidence state, <<n>>; <<>> in the
                         \* current revision, which keeps none
  lastRefreshTime, timeUntilNextRefresh, autoRefreshEnabled,
  countdownTimer,        \* the effect's countdown interval and its closure
  timerRef,              \* timerRef.current and the interval it names
  historicalData, isHistoryLoading, historyError, showHistory, useSampleData,
  sampleTimeouts,        \* due times of pending sample-data timeouts
  inflight,              \* classification requests awaiting their response
  saves,                 \* addDoc calls of the prediction flow in flight
  store,                 \* the fishPredictions collection
  histFetches,           \* getPredictionHistory calls in flight
  memo,                  \* state captured by the memoized runPrediction
  lastEvent,             \* history: the step taken last
  lastAutoStartAt,       \* history: <<t>> when a timer last started a request
  reenabledAt,           \* history: <<t>> since auto-refresh was re-enabled at t
  lastResponse,          \* history: <<index, p>> of the response whose run
                         \* completed last, <<>> if none or if it failed
  query                  \* the last direct getPredictionHistory call: its
                         \* limitCount (0: none yet) and what it returned

comp == <<pattern, isLoading, error, saveStatus, confidence, lastRefreshTime,
          timeUntilNextRefresh, autoRefreshEnabled>>
hist == <<historicalData, isHistoryLoading, historyError, showHistory, useSampleData>>
timers == <<countdownTimer, timerRef>>
net == <<inflight, saves, store, histFetches>>
aux == <<lastAutoStartAt, reenabledAt>>
obs == <<lastResponse, query>>
vars == <<revision, props, phase, now, comp, hist, timers, sampleTimeouts, net, memo,
          lastEvent, aux, obs>>

\* ---------------------------------------------------------- pure functions
\* mutant: the lookup without its fallback
PatternNameNoFallback(index) ==
  CASE index = 1 -> "Normal Swarm"
    [] index = 2 -> "Erratic Movement"
    [] index = 3 -> "Clustering"
    [] OTHER     -> "undefined"

\* patternMap[result.pattern] || `Pattern ${result.pattern}`
PatternName(index) ==
  CASE index = 1 -> "Normal Swarm"
    [] index = 2 -> "Erratic Movement"
    [] index = 3 -> "Clustering"
    [] OTHER     -> "Pattern " \o ToString(index)

\* the thousandths p for which the IEEE-754 double product (p / 1000) * 100
\* falls just below the tie p / 10 (0.145 * 100 is 14.499999999999998); for
\* every other p in 0..1000 the product rounds as the decimal p / 10 does
ProductBelowTie == {145, 285, 565, 575}

\* mutant: the percentage truncated instead of rounded
ConfidencePercentageTruncated(p) == p \div 10

\* Math.round(result.confidence * 100), the probability given in thousandths;
\* Math.round rounds a tie towards +Infinity
ConfidencePercentage(p) ==
  IF p \in ProductBelowTie THEN p \div 10 ELSE (p + 5) \div 10

\* err.message of what the request throws
ErrMessage(kind) ==
  CASE kind = "status"  -> "API error: 500"
    [] kind = "network" -> "Failed to fetch"
    [] kind = "parse"   -> "Unexpected token < in JSON at position 0"

\* mutant: the message without its prefix
PredictionFailedBare(kind) == ErrMessage(kind)

\* `Prediction failed: ${err.message}`
PredictionFailed(kind) == "Prediction failed: " \o ErrMessage(kind)

NoImageUrl == "No image URL provided"

\* mutant: the empty-input check dropped
EmptyInputNever(url) == FALSE

\* !imageUrl
EmptyInput(url) == url = ""

\* mutant: the countdown without its clamp
RemainingUnclamped(t, last, interval) == interval - (t - last)

\* Math.max(0, refreshInterval - elapsed)
Remaining(t, last, interval) == Max(0, interval - (t - last))

\* mutant: the countdown callback ignores the toggle
TickActiveAlways(enabled) == TRUE

\* if (autoRefreshEnabled) of the countdown callback
TickActive(enabled) == enabled

\* initialPattern && initialConfidence !== undefined
SkipInitialRun(p) == p.initialPattern # "" /\ p.initialConfidence # <<>>

InitialPattern(p) == IF p.initialPattern # "" THEN p.initialPattern ELSE "Loading..."
InitialIsLoading(p) == p.initialPattern = ""

\* part_000: useState(initialConfidence || 0)
InitialConfidence(p) ==
  IF p.initialConfidence # <<>> /\ p.initialConfidence[1] # 0
  THEN p.initialConfidence ELSE <<0>>

\* part_000's label table
PatternNamePart000(index) ==
  CASE index = 1 -> "Swimming Straight"
    [] index = 2 -> "Turning"
    [] index = 3 -> "Feeding"
    [] OTHER     -> "Pattern " \o ToString(index)

\* ------------------------------------------------------------------ timers
NoTimer == [current |-> FALSE, armed |-> FALSE, due |-> 0]
NoCountdown == [armed |-> FALSE, due |-> 0, enabled |-> FALSE, last |-> 0]

\* effect clean-up: clearInterval(timerRef.current), the ref keeps the id
CleanupRef(ref) == [ref EXCEPT !.armed = FALSE, !.due = 0]

\* effect start: if (timerRef.current) { clearInterval; timerRef.current = null }
ClearExisting(ref) == NoTimer

\* the effect body, run at time t for a render with (enabled, last)
NewCountdown(t, enabled, last) ==
  [armed |-> TRUE, due |-> t + CountdownPeriod, enabled |-> enabled, last |-> last]

\* mutant: the refresh interval is armed whatever the toggle says
NewRefreshTimerAlways(t, enabled, ref) ==
  [current |-> TRUE, armed |-> TRUE, due |-> t + RefreshInterval]

\* if (autoRefreshEnabled) { timerRef.current = setInterval(..., refreshInterval) }
NewRefreshTimer(t, enabled, ref) ==
  IF enabled THEN [current |-> TRUE, armed |-> TRUE, due |-> t + RefreshInterval]
             ELSE ref

\* clean-up of the previous effect followed by the effect of the new render
RerunTimerEffect(enabled, last) ==
  /\ countdownTimer' = NewCountdown(now, enabled, last)
  /\ timerRef' = NewRefreshTimer(now, enabled, ClearExisting(CleanupRef(timerRef)))

DueTimes ==
  (IF countdownTimer.armed THEN {countdownTimer.due} ELSE {})
  \cup (IF timerRef.armed THEN {timerRef.due} ELSE {})
  \cup sampleTimeouts

NoQuery == [limitCount |-> 0, result |-> <<>>]

\* -------------------------------------------------------------------- Init
Init ==
  /\ revision \in {"current", "part_000"}
  /\ props \in PropsSet
  /\ phase = "rendered"
  /\ now = 0
  /\ pattern = InitialPattern(props)
  /\ isLoading = InitialIsLoading(props)
  /\ error = Null
  /\ saveStatus = Null
  /\ confidence = IF revision = "part_000" THEN InitialConfidence(props) ELSE <<>>
  /\ lastRefreshTime = 0
  /\ timeUntilNextRefresh = RefreshInterval
  /\ autoRefreshEnabled = TRUE
  /\ countdownTimer = NoCountdown
  /\ timerRef = NoTimer
  /\ historicalData = <<>>
  /\ isHistoryLoading = FALSE
  /\ historyError = Null
  /\ showHistory = FALSE
  /\ useSampleData = FALSE
  /\ sampleTimeouts = {}
  /\ inflight = 0
  /\ saves = <<>>
  /\ store = <<>>
  /\ histFetches = 0
  /\ memo = [showHistory |-> FALSE, useSampleData |-> FALSE]
  /\ lastEvent = "init"
  /\ lastAutoStartAt = <<>>
  /\ reenabledAt = <<>>
  /\ lastResponse = <<>>
  /\ query = NoQuery

\* ----------------------------------------------------------- runPrediction
\* the model explores at most MaxInFlight concurrent requests
StartAllowed == inflight < MaxInFlight

\* runPrediction up to its first await
RunPrediction ==
  IF EmptyInput(props.imageUrl)
  THEN /\ error' = NoImageUrl
       /\ isLoading' = FALSE
       /\ inflight' = inflight
  ELSE /\ StartAllowed
       /\ isLoading' = TRUE
       /\ error' = Null
       /\ inflight' = inflight + 1

AutoStarted == IF EmptyInput(props.imageUrl) THEN lastAutoStartAt ELSE <<now>>

\* first commit: both effects run
Mount ==
  /\ revision = "current"
  /\ phase = "rendered"
  /\ phase' = "mounted"
  /\ IF SkipInitialRun(props)
     THEN /\ UNCHANGED <<isLoading, error, inflight>>
          /\ lastEvent' = "mount"
     ELSE /\ RunPrediction
          /\ lastEvent' = "mountRun"
  /\ countdownTimer' = NewCountdown(now, autoRefreshEnabled, lastRefreshTime)
  /\ timerRef' = NewRefreshTimer(now, autoRefreshEnabled, ClearExisting(timerRef))
  /\ UNCHANGED <<revision, props, now, pattern, saveStatus, confidence, lastRefreshTime,
                 timeUntilNextRefresh, autoRefreshEnabled, hist, sampleTimeouts,
                 saves, store, histFetches, memo, aux, obs>>

\* the countdown interval's callback
CountdownTick ==
  /\ revision = "current"
  /\ phase = "mounted"
  /\ countdownTimer.armed
  /\ countdownTimer.due <= now
  /\ countdownTimer' = [countdownTimer EXCEPT !.due = @ + CountdownPeriod]
  /\ IF TickActive(countdownTimer.enabled)
     THEN LET remaining == Remaining(now, countdownTimer.last, RefreshInterval) IN
          /\ timeUntilNextRefresh' = remaining
          /\ IF remaining = 0
             THEN /\ RunPrediction
                  /\ lastEvent' = "tickRun"
                  /\ lastAutoStartAt' = AutoStarted
                  /\ reenabledAt' = <<>>
             ELSE /\ UNCHANGED <<isLoading, error, inflight, aux>>
                  /\ lastEvent' = "tick"
     ELSE /\ UNCHANGED <<timeUntilNextRefresh, isLoading, error, inflight, aux>>
          /\ lastEvent' = "tick"
  /\ UNCHANGED <<revision, props, phase, now, pattern, saveStatus, confidence, lastRefreshTime,
                 autoRefreshEnabled, timerRef, hist, sampleTimeouts,
                 saves, store, histFetches, memo, obs>>

\* the refresh interval's callback
RefreshTimerFire ==
  /\ revision = "current"
  /\ phase = "mounted"
  /\ timerRef.armed
  /\ timerRef.due <= now
  /\ timerRef' = [timerRef EXCEPT !.due = @ + RefreshInterval]
  /\ RunPrediction
  /\ lastEvent' = "refreshRun"
  /\ lastAutoStartAt' = AutoStarted
  /\ reenabledAt' = <<>>
  /\ UNCHANGED <<revision, props, phase, now, pattern, saveStatus, confidence, lastRefreshTime,
                 timeUntilNextRefresh, autoRefreshEnabled, countdownTimer, hist,
                 sampleTimeouts, saves, store, histFetches, memo, obs>>

\* the "Refresh now" button, disabled={isLoading}
ManualRefresh ==
  /\ revision = "current"
  /\ phase = "mounted"
  /\ ~isLoading
  /\ RunPrediction
  /\ lastEvent' = "manual"
  /\ UNCHANGED <<revision, props, phase, now, pattern, saveStatus, confidence, lastRefreshTime,
                 timeUntilNextRefresh, autoRefreshEnabled, timers, hist,
                 sampleTimeouts, saves, store, histFetches, memo, aux, obs>>

\* the auto-refresh toggle; the timer effect depends on autoRefreshEnabled
ToggleAutoRefresh ==
  /\ revision = "current"
  /\ phase = "mounted"
  /\ autoRefreshEnabled' = ~autoRefreshEnabled
  /\ RerunTimerEffect(autoRefreshEnabled', lastRefreshTime)
  /\ reenabledAt' = IF autoRefreshEnabled' THEN <<now>> ELSE <<>>
  /\ lastEvent' = "toggleAuto"
  /\ UNCHANGED <<revision, props, phase, now, pattern, isLoading, error, saveStatus,
                 confidence, lastRefreshTime, timeUntilNextRefresh, hist,
                 sampleTimeouts, net, memo, lastAutoStartAt, obs>>

\* ------------------------------------------------ completion of a request
\* Timestamp.fromDate(date), the date in ms since the epoch
TimestampFromDate(ms) ==
  [seconds |-> ms \div 1000, nanoseconds |-> (ms % 1000) * 1000000]

\* timestamp.toDate(): a Date keeps whole milliseconds
ToDate(ts) == ts.seconds * 1000 + ts.nanoseconds \div 1000000

\* mutant: the record carries the pattern state of the render, not the run's
PredictionDataStale(t, patternValue, confidenceValue) ==
  [timestamp |-> TimestampFromDate(t), pattern |-> pattern,
   confidence |-> confidenceValue]

\* predictionData of savePredictionToFirebase; filename and imageUrl are
\* props and the same in every record
PredictionData(t, patternValue, confidenceValue) ==
  [timestamp |-> TimestampFromDate(t), pattern |-> patternValue,
   confidence |-> confidenceValue]

\* the response is OK and parses: the try block after the awaits, which calls
\* savePredictionToFirebase up to its await, then the finally block
CompleteOk(index, p) ==
  /\ revision = "current"
  /\ inflight > 0
  /\ Len(saves) + Len(store) < MaxRecords    \* exploration bound
  /\ inflight' = inflight - 1
  /\ saves' = Append(saves, PredictionData(now, PatternName(index),
                                           ConfidencePercentage(p)))
  /\ IF phase = "mounted"
     THEN /\ pattern' = PatternName(index)
          /\ lastRefreshTime' = now
          /\ saveStatus' = "Saving prediction to Firestore..."
          /\ isLoading' = FALSE
          /\ RerunTimerEffect(autoRefreshEnabled, lastRefreshTime')
     ELSE UNCHANGED <<pattern, lastRefreshTime, saveStatus, isLoading, timers>>
  /\ lastEvent' = "completeOk"
  /\ lastResponse' = <<index, p>>
  /\ UNCHANGED <<revision, props, phase, now, error, confidence,
                 timeUntilNextRefresh, autoRefreshEnabled, hist, sampleTimeouts, store, histFetches,
                 memo, aux, query>>

\* non-OK status, network failure or unparseable body: catch, then finally
CompleteFail(kind) ==
  /\ revision = "current"
  /\ inflight > 0
  /\ inflight' = inflight - 1
  /\ IF phase = "mounted"
     THEN /\ error' = PredictionFailed(kind)
          /\ pattern' = "Error"
          /\ isLoading' = FALSE
     ELSE UNCHANGED <<error, pattern, isLoading>>
  /\ lastEvent' = "completeFail"
  /\ lastResponse' = <<>>
  /\ UNCHANGED <<revision, props, phase, now, saveStatus, confidence,
                 lastRefreshTime, timeUntilNextRefresh, autoRefreshEnabled, timers,
                 hist, sampleTimeouts, saves, store, histFetches, memo, aux, query>>

\* ------------------------------------------------------------ history flow
SampleHistoricalData ==
  << [timestamp |-> 0 - 2 * 86400000, pattern |-> "Normal Swarm", confidence |-> 92],
     [timestamp |-> 0 - 86400000, pattern |-> "Erratic Movement", confidence |-> 87] >>

\* fetchHistoricalData of a render whose useSampleData is `sample`, up to its
\* await or its setTimeout
FetchHistoricalData(sample) ==
  /\ IF phase = "mounted"
     THEN isHistoryLoading' = TRUE /\ historyError' = Null
     ELSE UNCHANGED <<isHistoryLoading, historyError>>
  /\ IF sample
     THEN /\ Cardinality(sampleTimeouts) < MaxHistoryPending    \* exploration bound
          /\ sampleTimeouts' = sampleTimeouts \cup {now + SampleDelay}
          /\ histFetches' = histFetches
     ELSE /\ histFetches < MaxHistoryPending                    \* exploration bound
          /\ histFetches' = histFetches + 1
          /\ sampleTimeouts' = sampleTimeouts

RemoveAt(seq, i) == SubSeq(seq, 1, i - 1) \o SubSeq(seq, i + 1, Len(seq))

\* addDoc resolved: the rest of savePredictionToFirebase, as captured by the
\* memoized runPrediction
SaveOk(i) ==
  /\ i \in 1..Len(saves)
  /\ saves' = RemoveAt(saves, i)
  /\ store' = Append(store, saves[i])
  /\ saveStatus' = IF phase = "mounted" THEN "Prediction saved successfully!"
                   ELSE saveStatus
  /\ IF memo.showHistory /\ ~memo.useSampleData
     THEN FetchHistoricalData(memo.useSampleData)
     ELSE UNCHANGED <<isHistoryLoading, historyError, sampleTimeouts, histFetches>>
  /\ lastEvent' = "saveOk"
  /\ UNCHANGED <<revision, props, phase, now, pattern, isLoading, error, confidence,
                 lastRefreshTime, timeUntilNextRefresh, autoRefreshEnabled, timers, historicalData,
                 showHistory, useSampleData, inflight, memo, aux, obs>>

\* mutant: the save error without its prefix
SaveFailedBare(msg) == msg

\* `Error saving prediction: ${err.message}`
SaveFailed(msg) == "Error saving prediction: " \o msg

\* addDoc rejected
SaveFail(i) ==
  /\ i \in 1..Len(saves)
  /\ saves' = RemoveAt(saves, i)
  /\ saveStatus' = IF phase = "mounted"
                   THEN SaveFailed("Missing or insufficient permissions.")
                   ELSE saveStatus
  /\ lastEvent' = "saveFail"
  /\ UNCHANGED <<revision, props, phase, now, pattern, isLoading, error, confidence,
                 lastRefreshTime, timeUntilNextRefresh, autoRefreshEnabled, timers, hist,
                 sampleTimeouts, inflight, store, histFetches, memo, aux, obs>>

\* the history button
ToggleHistoryView ==
  /\ revision = "current"
  /\ phase = "mounted"
  /\ IF ~showHistory /\ Len(historicalData) = 0
     THEN FetchHistoricalData(useSampleData)
     ELSE UNCHANGED <<isHistoryLoading, historyError, sampleTimeouts, histFetches>>
  /\ showHistory' = ~showHistory
  /\ lastEvent' = "toggleHistory"
  /\ UNCHANGED <<revision, props, phase, now, comp, timers, historicalData, useSampleData,
                 inflight, saves, store, memo, aux, obs>>

\* the sample-data toggle of the history panel
ToggleSampleData ==
  /\ revision = "current"
  /\ phase = "mounted"
  /\ showHistory
  /\ useSampleData' = ~useSampleData
  /\ historicalData' = IF ~useSampleData THEN <<>> ELSE historicalData
  /\ lastEvent' = "toggleSample"
  /\ UNCHANGED <<revision, props, phase, now, comp, timers, isHistoryLoading, historyError,
                 showHistory, sampleTimeouts, net, memo, aux, obs>>

\* the "Refresh data" button of the history panel
RefreshHistory ==
  /\ revision = "current"
  /\ phase = "mounted"
  /\ showHistory
  /\ FetchHistoricalData(useSampleData)
  /\ lastEvent' = "refreshHistory"
  /\ UNCHANGED <<revision, props, phase, now, comp, timers, historicalData, showHistory,
                 useSampleData, inflight, saves, store, memo, aux, obs>>

\* the sample-data setTimeout's callback; nothing clears this timer
SampleTimeoutFire(due) ==
  /\ due \in sampleTimeouts
  /\ due <= now
  /\ sampleTimeouts' = sampleTimeouts \ {due}
  /\ IF phase = "mounted"
     THEN /\ historicalData' = SampleHistoricalData
          /\ isHistoryLoading' = FALSE
     ELSE UNCHANGED <<historicalData, isHistoryLoading>>
  /\ lastEvent' = "sampleTimeout"
  /\ UNCHANGED <<revision, props, phase, now, comp, timers, historyError, showHistory,
                 useSampleData, net, memo, aux, obs>>

\* Firestore's order of Timestamp values: seconds, then nanoseconds
Later(a, b) ==
  \/ a.seconds > b.seconds
  \/ (a.seconds = b.seconds /\ a.nanoseconds > b.nanoseconds)

\* orderBy('timestamp', 'desc'): the documents of `s` newest first, equal
\* timestamps in the order of their document keys
RECURSIVE SortDesc(_)
SortDesc(s) ==
  IF Len(s) = 0 THEN <<>>
  ELSE LET i == CHOOSE k \in 1..Len(s) :
                  \A j \in 1..Len(s) :
                    \/ Later(s[k].timestamp, s[j].timestamp)
                    \/ (s[k].timestamp = s[j].timestamp /\ k <= j)
       IN <<s[i]>> \o SortDesc(RemoveAt(s, i))

\* { ...data, timestamp: data.timestamp.toDate() }
ToPredictionRecord(doc) == [doc EXCEPT !.timestamp = ToDate(@)]

\* mutant: the query without its limit
GetPredictionHistoryUnlimited(docs, limitCount) ==
  LET snapshot == SortDesc(docs)
  IN [i \in 1..Len(snapshot) |-> ToPredictionRecord(snapshot[i])]

\* query(collection, orderBy('timestamp', 'desc'), limit(limitCount)), then
\* each document of the snapshot converted
GetPredictionHistory(docs, limitCount) ==
  LET snapshot == SubSeq(SortDesc(docs), 1, Min(limitCount, Len(docs)))
  IN [i \in 1..Len(snapshot) |-> ToPredictionRecord(snapshot[i])]

\* getPredictionHistory resolved
HistoryOk ==
  /\ histFetches > 0
  /\ histFetches' = histFetches - 1
  /\ IF phase = "mounted"
     THEN /\ historicalData' = GetPredictionHistory(store, HistoryLimit)
          /\ isHistoryLoading' = FALSE
     ELSE UNCHANGED <<historicalData, isHistoryLoading>>
  /\ lastEvent' = "historyOk"
  /\ UNCHANGED <<revision, props, phase, now, comp, timers, historyError, showHistory,
                 useSampleData, sampleTimeouts, inflight, saves, store, memo, aux, obs>>

\* getPredictionHistory rejected
HistoryFail ==
  /\ histFetches > 0
  /\ histFetches' = histFetches - 1
  /\ IF phase = "mounted"
     THEN /\ historyError' = "Failed to load historical data: " \o "unavailable"
          /\ isHistoryLoading' = FALSE
     ELSE UNCHANGED <<historyError, isHistoryLoading>>
  /\ lastEvent' = "historyFail"
  /\ UNCHANGED <<revision, props, phase, now, comp, timers, historicalData, showHistory,
                 useSampleData, sampleTimeouts, inflight, saves, store, memo, aux, obs>>

\* ------------------------------------------------------- unmount and time
\* the timer effect's clean-up
Unmount ==
  /\ revision = "current"
  /\ phase = "mounted"
  /\ phase' = "unmounted"
  /\ countdownTimer' = NoCountdown
  /\ timerRef' = CleanupRef(timerRef)
  /\ lastEvent' = "unmount"
  /\ UNCHANGED <<revision, props, now, comp, hist, sampleTimeouts, net, memo, aux, obs>>

SetMin(S) == CHOOSE x \in S : \A y \in S : x <= y

\* time passes, up to the next due timer
AdvanceTime ==
  /\ revision = "current"
  /\ phase # "rendered"
  /\ \A d \in DueTimes : d > now
  /\ now' = IF DueTimes = {} THEN now + Granularity
            ELSE Min(now + Granularity, SetMin(DueTimes))
  /\ now' <= MaxTime
  /\ lastEvent' = "time"
  /\ UNCHANGED <<revision, props, phase, comp, hist, timers, sampleTimeouts, net, memo, aux, obs>>

\* ------------------------------------------------ the part_000 revision
\* its only effect: runPrediction on mount
MountPart000 ==
  /\ revision = "part_000"
  /\ phase = "rendered"
  /\ phase' = "mounted"
  /\ IF SkipInitialRun(props)
     THEN /\ UNCHANGED <<isLoading, error, inflight>>
          /\ lastEvent' = "mount"
     ELSE /\ RunPrediction
          /\ lastEvent' = "mountRun"
  /\ UNCHANGED <<revision, props, now, pattern, saveStatus, confidence,
                 lastRefreshTime, timeUntilNextRefresh, autoRefreshEnabled,
                 timers, hist, sampleTimeouts, saves, store, histFetches, memo,
                 aux, obs>>

CompleteOkPart000(index, p) ==
  /\ revision = "part_000"
  /\ inflight > 0
  /\ inflight' = inflight - 1
  /\ pattern' = PatternNamePart000(index)
  /\ confidence' = <<ConfidencePercentage(p)>>
  /\ isLoading' = FALSE
  /\ lastEvent' = "completeOk"
  /\ lastResponse' = <<index, p>>
  /\ UNCHANGED <<revision, props, phase, now, error, saveStatus, lastRefreshTime,
                 timeUntilNextRefresh, autoRefreshEnabled, timers, hist,
                 sampleTimeouts, saves, store, histFetches, memo, aux, query>>

CompleteFailPart000(kind) ==
  /\ revision = "part_000"
  /\ inflight > 0
  /\ inflight' = inflight - 1
  /\ error' = PredictionFailed(kind)
  /\ pattern' = "Error"
  /\ confidence' = <<0>>
  /\ isLoading' = FALSE
  /\ lastEvent' = "completeFail"
  /\ lastResponse' = <<>>
  /\ UNCHANGED <<revision, props, phase, now, saveStatus, lastRefreshTime,
                 timeUntilNextRefresh, autoRefreshEnabled, timers, hist,
                 sampleTimeouts, saves, store, histFetches, memo, aux, query>>

\* ------------------------------------------------------------------ Next
\* what happens without the user: effects, timers, the network, the clock
Automatic ==
  \/ Mount
  \/ CountdownTick
  \/ RefreshTimerFire
  \/ \E index \in ClassIndices, p \in Probabilities : CompleteOk(index, p)
  \/ \E kind \in FailureKinds : CompleteFail(kind)
  \/ \E i \in 1..Len(saves) : SaveOk(i)
  \/ \E i \in 1..Len(saves) : SaveFail(i)
  \/ AdvanceTime
  \/ MountPart000
  \/ \E index \in ClassIndices, p \in Probabilities : CompleteOkPart000(index, p)
  \/ \E kind \in FailureKinds : CompleteFailPart000(kind)

\* the auto-refresh controls
Controls ==
  \/ ManualRefresh
  \/ ToggleAutoRefresh

\* the history panel
Panel ==
  \/ ToggleHistoryView
  \/ ToggleSampleData
  \/ RefreshHistory
  \/ \E due \in sampleTimeouts : SampleTimeoutFire(due)
  \/ HistoryOk
  \/ HistoryFail

Next == Automatic \/ Controls \/ Panel \/ Unmount

\* The complete relation.  Its state space is the product of the refresh
\* scheduler's and the history panel's; the panel's actions leave every
\* variable the scheduler reads unchanged except the clock's instants, so the
\* two are explored separately below.
SpecAll == Init /\ [][Next]_vars

\* no user action at all
SpecAuto == Init /\ [][Automatic]_vars

\* the refresh scheduler and the prediction flow under every use of the
\* auto-refresh controls, with unmount
Spec == Init /\ [][Automatic \/ Controls \/ Unmount]_vars

\* the history panel on the instance App.tsx mounts, with unmount
InitApp == Init /\ ~EmptyInput(props.imageUrl) /\ props.initialPattern = ""
SpecHistory == InitApp /\ [][Automatic \/ Panel \/ Unmount]_vars

\* ------------------------------------------ the history service, directly
\* bounds of the store contents and of limitCount explored
MaxDocs == 3
MaxLimit == 3

\* timestamps of the records handed to savePrediction: two within one second
\* and two a millisecond apart across a second boundary
RecordDates == {0, 1500, 1999, 2000}

\* savePrediction(prediction), the addDoc resolved
SavePrediction(prediction) ==
  /\ Len(store) < MaxDocs
  /\ store' = Append(store, [prediction EXCEPT !.timestamp = TimestampFromDate(@)])
  /\ lastEvent' = "savePrediction"
  /\ UNCHANGED <<revision, props, phase, now, comp, hist, timers, sampleTimeouts,
                 inflight, saves, histFetches, memo, aux, obs>>

\* getPredictionHistory(limitCount), resolved with its result
CallGetPredictionHistory(limitCount) ==
  /\ query' = [limitCount |-> limitCount,
               result |-> GetPredictionHistory(store, limitCount)]
  /\ lastEvent' = "query"
  /\ UNCHANGED <<revision, props, phase, now, comp, hist, timers, sampleTimeouts,
                 net, memo, aux, lastResponse>>

Service ==
  \/ \E t \in RecordDates :
       SavePrediction([timestamp |-> t, pattern |-> "Clustering", confidence |-> 88])
  \/ \E limitCount \in 1..MaxLimit : CallGetPredictionHistory(limitCount)

\* the service's two functions called in any order on a growing collection
InitService == InitApp /\ revision = "current"
SpecService == InitService /\ [][Service]_vars

\* ------------------------------------------- every answer of the classifier
\* class indices explored: below the table, in it (1, 2, 3) and above it
MaxIndex == 5
AllIndices == (0 - 1)..MaxIndex

\* every probability of [0, 1] in steps of a thousandth
Thousandths == 0..1000

Classify ==
  \/ Mount
  \/ MountPart000
  \/ /\ inflight > 0
     /\ \E index \in AllIndices, p \in Thousandths : CompleteOk(index, p)
  \/ /\ inflight > 0
     /\ \E index \in AllIndices, p \in Thousandths : CompleteOkPart000(index, p)

\* the on-mount run of the instance App.tsx mounts, answered with any class
\* index and any probability
SpecClassify == InitApp /\ [][Classify]_vars

\* ------------------------------------------------------------------ claims
StartsWith(str, prefix) ==
  Len(str) >= Len(prefix) /\ SubSeq(str, 1, Len(prefix)) = prefix

\* the steps that call runPrediction
RunEvents == {"mountRun", "manual", "tickRun", "refreshRun"}
\* those of the two timers
AutoRunEvents == {"tickRun", "refreshRun"}
CompletionEvents == {"completeOk", "completeFail"}
TimerEvents == {"tick", "tickRun", "refreshRun", "sampleTimeout"}

\* C1: at most one classification request is in flight at any time, and a
\* manual trigger issued while a run is in flight starts no new request.
C1_OneRequestInFlight ==
  [][ /\ inflight' <= 1
      /\ (lastEvent' = "manual" /\ inflight > 0) => inflight' = inflight ]_vars

\* C2: with auto-refresh enabled and no manual trigger, a timer starts an
\* attempt only at or after the deadline lastRefreshTime + refreshInterval, and
\* no two attempts started by the timers are less than one interval apart (the
\* countdown tick and the refresh interval never both start one for the same
\* deadline).
C2_OneAttemptPerInterval ==
  [][ (lastEvent' \in AutoRunEvents /\ inflight' = inflight + 1) =>
        /\ now' >= lastRefreshTime + RefreshInterval
        /\ \/ lastAutoStartAt = <<>>
           \/ now' - lastAutoStartAt[1] >= RefreshInterval ]_vars

\* C3: when a run of the mounted component completes, with success or with
\* failure, lastRefreshTime is reset to the completion time.
C3_CompletionResetsLastRefreshTime ==
  [][ (lastEvent' \in CompletionEvents /\ revision = "current"
       /\ phase = "mounted") => lastRefreshTime' = now' ]_vars

C5_EmptyImageUrl ==
  [][ (props.imageUrl = "" /\ lastEvent' \in RunEvents) =>
        /\ inflight' = 0
        /\ saves' = <<>> /\ store' = <<>>
        /\ error' = "No image URL provided"
        /\ ~isLoading'
        /\ pattern' = pattern
        /\ lastRefreshTime' = lastRefreshTime ]_vars

C5_Witness ==
  /\ props.imageUrl = ""
  /\ revision = "current"
  /\ lastEvent = "tickRun"
  /\ error = "No image URL provided"
  /\ inflight = 0

\* C6: while auto-refresh is disabled neither timer calls runPrediction: the
\* refresh interval is not armed and the armed countdown's closure holds the
\* disabled flag, whatever was armed before the toggle.
C6_NoAutoRunWhileDisabled ==
  /\ lastEvent \in AutoRunEvents => autoRefreshEnabled
  /\ (phase = "mounted" /\ ~autoRefreshEnabled) =>
       ~timerRef.armed /\ ~countdownTimer.enabled

\* the countdown fired past the deadline while disabled, and started nothing
C6_Witness ==
  /\ phase = "mounted"
  /\ ~autoRefreshEnabled
  /\ lastEvent = "tick"
  /\ now - lastRefreshTime >= RefreshInterval
  /\ inflight = 0

\* C7: after auto-refresh is re-enabled at time t, no timer starts an attempt
\* before t + refreshInterval.
C7_ReenableRearms ==
  [][ (lastEvent' \in AutoRunEvents /\ inflight' = inflight + 1
       /\ reenabledAt # <<>>) =>
        now' >= reenabledAt[1] + RefreshInterval ]_vars

\* C8: after unmount no timer of the component is armed and no timer callback
\* runs.
C8_NoTimerAfterUnmount ==
  phase = "unmounted" =>
    /\ ~countdownTimer.armed
    /\ ~timerRef.armed
    /\ sampleTimeouts = {}
    /\ lastEvent \notin TimerEvents

\* C9 as stated: while auto-refresh is disabled a manual trigger with no run in
\* flight starts exactly one request, and a completion leaves auto-refresh
\* disabled and no refresh interval armed.
C9_ManualWhileDisabled_Original ==
  [][ /\ (lastEvent' = "manual" /\ ~autoRefreshEnabled /\ inflight = 0) =>
           inflight' = 1
      /\ (lastEvent' \in CompletionEvents /\ ~autoRefreshEnabled
          /\ phase = "mounted") =>
           ~autoRefreshEnabled' /\ ~timerRef'.armed ]_vars

\* C9 amended: the same, for a non-empty imageUrl.
C9_ManualWhileDisabled ==
  [][ /\ (lastEvent' = "manual" /\ ~autoRefreshEnabled /\ inflight = 0
          /\ props.imageUrl # "") => inflight' = 1
      /\ (lastEvent' \in CompletionEvents /\ ~autoRefreshEnabled
          /\ phase = "mounted") =>
           ~autoRefreshEnabled' /\ ~timerRef'.armed ]_vars

\* a run that only the manual trigger can have started has completed with
\* success while auto-refresh is disabled
C9_Witness ==
  /\ phase = "mounted"
  /\ ~autoRefreshEnabled
  /\ SkipInitialRun(props)
  /\ lastAutoStartAt = <<>>
  /\ lastEvent = "completeOk"
  /\ inflight = 0
  /\ ~timerRef.armed

\* C10: timeUntilNextRefresh is never negative, and a countdown tick with
\* auto-refresh enabled sets it to max(0, refreshInterval - (now - lastRefreshTime)).
C10_CountdownNonNegative ==
  /\ timeUntilNextRefresh >= 0
  /\ (lastEvent \in {"tick", "tickRun"} /\ autoRefreshEnabled) =>
       timeUntilNextRefresh =
         (IF RefreshInterval - (now - lastRefreshTime) > 0
          THEN RefreshInterval - (now - lastRefreshTime) ELSE 0)

\* a tick past the deadline: the clamp is what keeps the value at 0
C10_Witness ==
  /\ lastEvent = "tickRun"
  /\ autoRefreshEnabled
  /\ now - lastRefreshTime > RefreshInterval
  /\ timeUntilNextRefresh = 0

\* C11: a persistence write that fails after a successful classification
\* changes only the save status, to a message that starts with "Error saving
\* prediction": pattern, error, isLoading, lastRefreshTime and the refresh
\* schedule stay as they are.  The run's completion does not wait for the
\* write: it sets isLoading to false with the write still in flight.
C11_SaveFailureOnlySaveStatus ==
  [][ /\ (lastEvent' = "saveFail" /\ phase = "mounted") =>
           /\ StartsWith(saveStatus', "Error saving prediction")
           /\ pattern' = pattern
           /\ error' = error
           /\ isLoading' = isLoading
           /\ lastRefreshTime' = lastRefreshTime
           /\ timeUntilNextRefresh' = timeUntilNextRefresh
           /\ autoRefreshEnabled' = autoRefreshEnabled
           /\ timers' = timers
      /\ (lastEvent' = "completeOk" /\ revision = "current"
          /\ phase = "mounted") =>
           ~isLoading' /\ Len(saves') = Len(saves) + 1 ]_vars

\* the write of a successful run has failed; the result of the run stands
C11_Witness ==
  /\ lastEvent = "saveFail"
  /\ phase = "mounted"
  /\ StartsWith(saveStatus, "Error saving prediction")
  /\ pattern = "Erratic Movement"
  /\ error = Null
  /\ ~isLoading
  /\ saves = <<>> /\ store = <<>>

\* C12: when a history fetch fails, a history error message is surfaced,
\* isHistoryLoading becomes false, the historical list is reset to the empty
\* list, and pattern, error and isLoading are unchanged.
C12_HistoryFetchFailure ==
  [][ (lastEvent' = "historyFail" /\ phase = "mounted") =>
        /\ historyError' # Null
        /\ ~isHistoryLoading'
        /\ historicalData' = <<>>
        /\ pattern' = pattern
        /\ error' = error
        /\ isLoading' = isLoading ]_vars

\* r is what a query with limit n must return from the collection docs: at
\* most n records, newest first, each a converted document of the collection,
\* and no document left out is later than one returned
NewestFirst(r, n, docs) ==
  /\ Len(r) <= n
  /\ Len(r) = (IF n <= Len(docs) THEN n ELSE Len(docs))
  /\ \A i \in 1..Len(r) : \A j \in 1..Len(r) :
       i < j => r[i].timestamp >= r[j].timestamp
  /\ \E f \in [1..Len(r) -> 1..Len(docs)] :
       /\ \A i \in 1..Len(r) : \A j \in 1..Len(r) : f[i] = f[j] => i = j
       /\ \A i \in 1..Len(r) :
            /\ r[i].pattern = docs[f[i]].pattern
            /\ r[i].confidence = docs[f[i]].confidence
            /\ r[i].timestamp = docs[f[i]].timestamp.seconds * 1000
                                + docs[f[i]].timestamp.nanoseconds \div 1000000
       /\ \A k \in 1..Len(docs) :
            (\A i \in 1..Len(r) : f[i] # k) =>
              \A i \in 1..Len(r) :
                \/ docs[k].timestamp.seconds < docs[f[i]].timestamp.seconds
                \/ /\ docs[k].timestamp.seconds = docs[f[i]].timestamp.seconds
                   /\ docs[k].timestamp.nanoseconds <= docs[f[i]].timestamp.nanoseconds

LabelTable ==
  [current  |-> <<"Normal Swarm", "Erratic Movement", "Clustering">>,
   part_000 |-> <<"Swimming Straight", "Turning", "Feeding">>]

\* C14: for every class index the classifier returns, the resulting pattern is
\* the label table's entry when the index is in the table (1, 2, 3) and the
\* string "Pattern {index}" otherwise; the pattern of a successful
\* classification is never undefined or empty.
C14_PatternFromIndex ==
  (lastEvent = "completeOk" /\ phase = "mounted") =>
    /\ lastResponse[1] \in 1..3 => pattern = LabelTable[revision][lastResponse[1]]
    /\ lastResponse[1] \notin 1..3 =>
         pattern = "Pattern " \o ToString(lastResponse[1])
    /\ pattern \notin {"", "undefined", Null}

\* an index the table does not hold, and falsy in the lookup's ||
C14_Witness ==
  /\ lastEvent = "completeOk"
  /\ phase = "mounted"
  /\ revision = "current"
  /\ lastResponse[1] = 0
  /\ pattern = "Pattern 0"

\* the percentage a successful run has just computed: the saved record's in
\* the current revision, the confidence state in part_000
ComputedPercentage ==
  IF revision = "current" THEN saves[Len(saves)].confidence ELSE confidence[1]

C16_OneWritePerSuccess ==
  [][ /\ (lastEvent' = "completeOk" /\ revision = "current") =>
           /\ Len(saves') = Len(saves) + 1
           /\ SubSeq(saves', 1, Len(saves)) = saves
           /\ store' = store
           /\ saves'[Len(saves')].pattern =
                (IF lastResponse'[1] \in 1..3
                 THEN LabelTable.current[lastResponse'[1]]
                 ELSE "Pattern " \o ToString(lastResponse'[1]))
           /\ phase = "mounted" => saves'[Len(saves')].pattern = pattern'
           /\ 10 * saves'[Len(saves')].confidence - 5 <= lastResponse'[2]
           /\ lastResponse'[2] <= 10 * saves'[Len(saves')].confidence + 5
      /\ lastEvent' # "completeOk" =>
           /\ Len(saves') <= Len(saves)
           /\ Len(saves') + Len(store') <= Len(saves) + Len(store)
      /\ (lastEvent' = "completeFail" \/ lastEvent' \in RunEvents) =>
           saves' = saves /\ store' = store
      /\ \A i \in 1..Len(saves') : saves'[i].pattern # "Error"
      /\ \A i \in 1..Len(store') : store'[i].pattern # "Error" ]_vars

\* a run failed and the screen shows "Error", then the overlapping run
\* succeeded and started the one write there is
C16_Witness ==
  /\ revision = "current"
  /\ lastEvent = "completeOk"
  /\ error # Null
  /\ Len(saves) = 1
  /\ store = <<>>
  /\ saves[1].pattern = "Pattern 7"
  /\ saves[1].confidence = 88

\* C17: whenever a prediction save started by runPrediction succeeds while the
\* history panel is shown and sample-data mode is off, at that moment, a
\* history fetch is started.
C17_SaveRefreshesShownHistory ==
  [][ (lastEvent' = "saveOk" /\ phase = "mounted" /\ showHistory
       /\ ~useSampleData /\ histFetches < MaxHistoryPending) =>
        histFetches' = histFetches + 1 /\ isHistoryLoading' ]_vars

\* C18: in every reachable state of a mounted component isLoading is true
\* whenever a classification request is in flight: the completion of one run
\* never sets isLoading to false while another run still awaits its response.
C18_LoadingWhileInFlight ==
  (phase = "mounted" /\ inflight > 0) => isLoading

\* C19: whenever no classification request is in flight and the run that
\* completed last succeeded, error is null and pattern is not "Error".
C19_SuccessShowsNoError ==
  (phase = "mounted" /\ inflight = 0 /\ lastResponse # <<>>) =>
    error = Null /\ pattern # "Error"
====
